---- MODULE Spec2Model ----
(***************************************************************************)
(* A model of backend/server.py: the patient, task and contact-log         *)
(* endpoints and the daily call report, over a MongoDB-like record store.  *)
(*                                                                         *)
(* Strings are sequences of character codes (ASCII), so that MongoDB's     *)
(* $lte on strings is the lexicographic order of the codes and a $regex    *)
(* with option "i" is a search that folds case.  A request handler is a    *)
(* process that takes one step per awaited store operation; the store      *)
(* executes each operation atomically, and the steps of different requests *)
(* interleave freely.                                                      *)
(***************************************************************************)
EXTENDS Integers, Sequences, FiniteSets, TLC

(***************************************************************************)
(* Bounds of the model.                                                    *)
(***************************************************************************)
MaxReq      == 2   \* handlers suspended at an await at the same time
MaxPatients == 2   \* patients ever created
MaxTasks    == 2   \* tasks ever created
MaxLogs     == 1   \* contact logs ever created
MaxTicks    == 1   \* times the clock advances
MaxUpdates  == 2   \* update requests that pass their first find_one
TicksPerDay == 2   \* clock readings per day (the clock's resolution)

(***************************************************************************)
(* Program constants.                                                      *)
(***************************************************************************)
ThirtyDays == 30     \* timedelta(days=30)
ListCap    == 1000   \* to_list(1000)

(***************************************************************************)
(* Strings.                                                                *)
(***************************************************************************)
Min(a, b) == IF a <= b THEN a ELSE b

\* The character of a decimal digit.
Digit(d) == 48 + d

\* str.zfill-like formatting used by date.isoformat(): %02d and %04d.
Pad2(n) == << Digit((n \div 10) % 10), Digit(n % 10) >>
Pad4(n) == << Digit((n \div 1000) % 10), Digit((n \div 100) % 10),
              Digit((n \div 10) % 10), Digit(n % 10) >>

\* MongoDB's order on strings (simple binary collation): s <= t.
StrLE(s, t) ==
    LET n == Min(Len(s), Len(t))
        diff == { i \in 1..n : s[i] # t[i] }
    IN  IF diff = {}
        THEN Len(s) <= Len(t)
        ELSE LET k == CHOOSE i \in diff : \A j \in diff : i <= j
             IN  s[k] < t[k]

\* Case folding of option "i": 'A'..'Z' to 'a'..'z'.
Lower(c) == IF c >= 65 /\ c <= 90 THEN c + 32 ELSE c

\* One pattern character against one subject character: '.' matches any
\* character, every other character of the alphabet used here is a literal.
RegexCharMatch(pc, c) == pc = 46 \/ Lower(pc) = Lower(c)

\* {"$regex": pattern, "$options": "i"}: the pattern matches somewhere in text.
RegexSearch(pattern, text) ==
    \E off \in 0..(Len(text) - Len(pattern)) :
        \A i \in 1..Len(pattern) : RegexCharMatch(pattern[i], text[off + i])

(***************************************************************************)
(* Calendar and clock.  A day is a number of days since Epoch; a clock     *)
(* reading is a number of ticks, TicksPerDay to the day.                   *)
(***************************************************************************)
Epoch == [y |-> 2026, m |-> 12, d |-> 30]

IsLeap(y) == (y % 4 = 0 /\ y % 100 # 0) \/ y % 400 = 0

DaysInMonth(y, m) ==
    IF m = 2 THEN (IF IsLeap(y) THEN 29 ELSE 28)
    ELSE IF m \in {4, 6, 9, 11} THEN 30 ELSE 31

NextDate(dt) ==
    IF dt.d < DaysInMonth(dt.y, dt.m) THEN [dt EXCEPT !.d = dt.d + 1]
    ELSE IF dt.m < 12 THEN [dt EXCEPT !.m = dt.m + 1, !.d = 1]
    ELSE [y |-> dt.y + 1, m |-> 1, d |-> 1]

RECURSIVE DateOfDay(_)
DateOfDay(n) == IF n = 0 THEN Epoch ELSE NextDate(DateOfDay(n - 1))

\* date.isoformat(): YYYY-MM-DD
IsoDate(n) ==
    LET dt == DateOfDay(n)
    IN  Pad4(dt.y) \o <<45>> \o Pad2(dt.m) \o <<45>> \o Pad2(dt.d)

\* datetime.isoformat() of a naive datetime whose microsecond is 0:
\* YYYY-MM-DDTHH:MM:SS
IsoDateTime(t) ==
    LET secs == ((t % TicksPerDay) * 86400) \div TicksPerDay
    IN  IsoDate(t \div TicksPerDay) \o <<84>> \o Pad2(secs \div 3600) \o <<58>>
        \o Pad2((secs \div 60) % 60) \o <<58>> \o Pad2(secs % 60)

\* datetime.now(timezone.utc).isoformat(): the same with the offset +00:00
IsoDateTimeUtc(t) == IsoDateTime(t) \o <<43, 48, 48, 58, 48, 48>>

(***************************************************************************)
(* Values.  Optional[T] is None or Some(v).                                *)
(***************************************************************************)
None    == << >>
Some(v) == << v >>

\* Strings used as inputs.
StrAl   == << 65, 108 >>            \* "Al"
StrBo   == << 66, 111 >>            \* "Bo"
StrLi   == << 76, 105 >>            \* "Li"
StrOak  == << 79, 97, 107 >>        \* "Oak"
StrTan  == << 84, 49 >>             \* "T1"
StrMid  == << 77, 49 >>             \* "M1"
StrNote == << 110 >>                \* "n"
StrPh1  == << 53, 53 >>             \* "55"
StrPh2  == << 55, 46, 55 >>         \* "7.7"
StrPad  == << 112, 97, 100 >>       \* "pad"
StrE11  == << 69, 49, 49 >>         \* "E11"
StrCall == << 99, 97, 108, 108 >>   \* "call"
Empty   == << >>                    \* ""

\* uuid.uuid4() as a string: a collection letter and a serial number; two
\* calls never return the same string.
Uuid(letter, n) == << letter, Digit(n) >>
PatientId(n) == Uuid(112, n)
TaskId(n)    == Uuid(116, n)
LogId(n)     == Uuid(108, n)
\* An id that is well-formed and was never generated.
UnknownId    == << 120 >>

(***************************************************************************)
(* Pydantic models.                                                        *)
(***************************************************************************)
DoctorA == [name |-> StrBo, phone |-> StrPh1, fax |-> StrPh1, address |-> None]
DoctorB == [name |-> StrLi, phone |-> StrPh2, fax |-> StrPh2, address |-> Some(StrOak)]

PatientFields ==
    { "id", "first_name", "last_name", "phone", "address", "height", "weight",
      "icd10_codes", "doctor", "current_tan", "tan_expiry_date", "medicaid_id",
      "medicaid_eligible", "last_billing_date", "products", "notes",
      "created_at", "updated_at" }

PatientCreateFields ==
    { "first_name", "last_name", "phone", "address", "height", "weight",
      "icd10_codes", "doctor", "current_tan", "tan_expiry_date", "medicaid_id",
      "medicaid_eligible", "products", "notes" }

PatientUpdateFields ==
    { "first_name", "last_name", "phone", "address", "height", "weight",
      "icd10_codes", "doctor", "current_tan", "tan_expiry_date", "medicaid_id",
      "medicaid_eligible", "last_billing_date", "products", "notes" }

\* The fields of Patient declared Optional[str]: a document holds None or
\* Some(string) there.
PatientOptionalFields == { "height", "weight", "last_billing_date" }

\* Defaults with medicaid_eligible false.
PatientCreateDefaultIneligible(f) ==
    CASE f = "height"            -> None
      [] f = "weight"            -> None
      [] f = "icd10_codes"       -> << >>
      [] f = "medicaid_eligible" -> FALSE
      [] f = "products"          -> << >>
      [] f = "notes"             -> Empty

\* class PatientCreate: the defaults of the fields a request body may omit.
PatientCreateDefault(f) ==
    CASE f = "height"            -> None
      [] f = "weight"            -> None
      [] f = "icd10_codes"       -> << >>
      [] f = "medicaid_eligible" -> TRUE
      [] f = "products"          -> << >>
      [] f = "notes"             -> Empty

\* PatientCreate parsed from a request body (a function on the keys it has).
PatientCreate(raw) ==
    [f \in PatientCreateFields |->
        IF f \in DOMAIN raw THEN raw[f] ELSE PatientCreateDefault(f)]

\* class Patient: the default of a field the keyword arguments omit.
PatientDefault(f, uuid, ts) ==
    CASE f = "id"                -> uuid
      [] f = "height"            -> None
      [] f = "weight"            -> None
      [] f = "icd10_codes"       -> << >>
      [] f = "medicaid_eligible" -> TRUE
      [] f = "last_billing_date" -> None
      [] f = "products"          -> << >>
      [] f = "notes"             -> Empty
      [] f = "created_at"        -> ts
      [] f = "updated_at"        -> ts

\* Patient built from the keyword arguments d: the declared fields, taken from d or defaulted; a key of d
\* that is no field (MongoDB's _id) is ignored.
Patient(d, uuid, ts) ==
    [f \in PatientFields |-> IF f \in DOMAIN d THEN d[f] ELSE PatientDefault(f, uuid, ts)]

\* PatientUpdate parsed from a request body: every field is Optional and
\* defaults to None.
PatientUpdate(raw) ==
    [f \in PatientUpdateFields |-> IF f \in DOMAIN raw THEN Some(raw[f]) ELSE None]

\* No field of the models above is typed date, so no value of a dict() is a
\* date instance.
DateTypedFields == { }

\* prepare_for_mongo: the values that are date objects become ISO strings.
PrepareForMongo(data) ==
    [k \in DOMAIN data |-> IF k \in DateTypedFields THEN IsoDate(data[k]) ELSE data[k]]

StrAdmin == << 97, 100, 109, 105, 110 >>   \* "admin"

TaskFields ==
    { "id", "patient_id", "task_type", "title", "description", "assigned_to",
      "status", "due_date", "created_at", "completed_at" }

TaskCreateFields == { "patient_id", "task_type", "title", "description", "due_date" }

\* class TaskCreate
TaskCreate(raw) ==
    [f \in TaskCreateFields |->
        IF f \in DOMAIN raw THEN raw[f]
        ELSE IF f = "description" THEN Empty ELSE None]

\* class Task: the default of a field the keyword arguments omit.
TaskDefault(f, uuid, ts) ==
    CASE f = "id"           -> uuid
      [] f = "description"  -> Empty
      [] f = "assigned_to"  -> StrAdmin
      [] f = "status"       -> "pending"
      [] f = "due_date"     -> None
      [] f = "created_at"   -> ts
      [] f = "completed_at" -> None

\* Task built from the keyword arguments d
Task(d, uuid, ts) ==
    [f \in TaskFields |-> IF f \in DOMAIN d THEN d[f] ELSE TaskDefault(f, uuid, ts)]

ContactLogFields ==
    { "id", "patient_id", "contact_date", "outcome", "notes", "follow_up_needed",
      "follow_up_date" }

ContactLogCreateFields ==
    { "patient_id", "outcome", "notes", "follow_up_needed", "follow_up_date" }

\* class ContactLogCreate
ContactLogCreate(raw) ==
    [f \in ContactLogCreateFields |->
        IF f \in DOMAIN raw THEN raw[f]
        ELSE CASE f = "notes"            -> Empty
               [] f = "follow_up_needed" -> FALSE
               [] f = "follow_up_date"   -> None]

\* class ContactLog: the default of a field the keyword arguments omit.
ContactLogDefault(f, uuid, ts) ==
    CASE f = "id"               -> uuid
      [] f = "contact_date"     -> ts
      [] f = "notes"            -> Empty
      [] f = "follow_up_needed" -> FALSE
      [] f = "follow_up_date"   -> None

\* ContactLog built from the keyword arguments d
ContactLog(d, uuid, ts) ==
    [f \in ContactLogFields |->
        IF f \in DOMAIN d THEN d[f] ELSE ContactLogDefault(f, uuid, ts)]

(***************************************************************************)
(* The record store: a collection is the sequence of its documents in      *)
(* insertion order.                                                        *)
(***************************************************************************)
\* insert_one: the driver adds the key _id (an ObjectId) to the document.
InsertOne(coll, doc, oid) == Append(coll, doc @@ ("_id" :> oid))

\* cursor.to_list(n): at most the first n documents.
ToList(cursor, n) == SubSeq(cursor, 1, Min(Len(cursor), n))

\* A query is evaluated to the set of the positions of the documents it
\* matches: hits.
\* find(query): the matching documents in natural order.
Find(coll, hits) ==
    LET upto[n \in 0..Len(coll)] ==
            IF n = 0 THEN << >>
            ELSE IF n \in hits THEN Append(upto[n - 1], coll[n]) ELSE upto[n - 1]
    IN  upto[Len(coll)]

\* find_one(query): the first matching document, or None.
FindOne(coll, hits) ==
    LET found == Find(coll, hits)
    IN  IF found = << >> THEN None ELSE Some(found[1])

\* The index of the first document that matches, 0 when there is none.
FirstMatch(coll, hits) ==
    IF hits = {} THEN 0 ELSE CHOOSE i \in hits : \A j \in hits : i <= j

\* {"$set": fields} applied to one document.
SetFields(doc, fields) ==
    [f \in DOMAIN doc \cup DOMAIN fields |->
        IF f \in DOMAIN fields THEN fields[f] ELSE doc[f]]

\* update_one(query, {"$set": fields}): the first match is updated;
\* modified_count counts it only if the update changed it.
UpdateOne(coll, hits, fields) ==
    LET i == FirstMatch(coll, hits)
    IN  IF i = 0
        THEN [coll |-> coll, matched_count |-> 0, modified_count |-> 0]
        ELSE [coll |-> [coll EXCEPT ![i] = SetFields(coll[i], fields)],
              matched_count |-> 1,
              modified_count |-> IF SetFields(coll[i], fields) = coll[i] THEN 0 ELSE 1]

\* A delete that counts the match and keeps the document.
DeleteOneKeeps(coll, hits) ==
    [coll |-> coll, deleted_count |-> IF FirstMatch(coll, hits) = 0 THEN 0 ELSE 1]

\* delete_one(query): the first match is removed.
DeleteOne(coll, hits) ==
    LET i == FirstMatch(coll, hits)
    IN  IF i = 0
        THEN [coll |-> coll, deleted_count |-> 0]
        ELSE [coll |-> SubSeq(coll, 1, i - 1) \o SubSeq(coll, i + 1, Len(coll)),
              deleted_count |-> 1]

\* The query {"id": id}.
HasId(doc, id) == doc.id = id
WithId(coll, id) == { i \in DOMAIN coll : HasId(coll[i], id) }

(***************************************************************************)
(* State.                                                                  *)
(***************************************************************************)
VARIABLES
    patients,       \* db.patients
    tasks,          \* db.tasks
    contact_logs,   \* db.contact_logs
    serial,         \* how many ids uuid4() has generated, per collection
    now,            \* the clock (UTC), in ticks
    tz,             \* the server's local time zone: local time is now + tz
    req,            \* the handlers suspended at an await
    out,            \* the response sent by the step that led to this state
    hist            \* history, kept for the properties; no handler reads it

vars == << patients, tasks, contact_logs, serial, now, tz, req, out, hist >>

Reqs == 1..MaxReq

IdleReq    == [op |-> "idle", pc |-> "idle", id |-> None, body |-> None, loc |-> None]
NoResponse == [op |-> "none", args |-> None, status |-> 0, body |-> None]

\* The response to the request op(args).
Response(op, args, status, body) ==
    [op |-> op, args |-> args, status |-> status, body |-> body]

\* The clock starts at the last tick of day 1, so that its first advance
\* changes the date.
StartTick == 2 * TicksPerDay - 1
\* The time zones of the model: UTC, and one tick behind UTC.
TimeZones == { 0, -1 }

\* datetime.now(timezone.utc) and datetime.now()
UtcNow   == now
LocalNow == now + tz
\* datetime.now(timezone.utc).date().isoformat()
UtcToday == IsoDate(UtcNow \div TicksPerDay)
\* datetime.now(timezone.utc).isoformat()
Timestamp == IsoDateTimeUtc(UtcNow)
\* (datetime.now() + timedelta(days=30)).isoformat()
ThirtyDaysAhead == IsoDateTime(LocalNow + ThirtyDays * TicksPerDay)

Init ==
    /\ patients = << >>
    /\ tasks = << >>
    /\ contact_logs = << >>
    /\ serial = [patients |-> 0, tasks |-> 0, contact_logs |-> 0]
    /\ now = StartTick
    /\ tz \in TimeZones
    /\ req = [r \in Reqs |-> IdleReq]
    /\ out = NoResponse
    /\ hist = [created |-> {}, written |-> {}, removed |-> {}, completed |-> {},
               pre |-> None, snap |-> None, started |-> << >>]

\* The server's clock is set to UTC.
InitUtc == Init /\ tz = 0

\* A new handler is suspended in the first free slot.
FreeSlot(r) == req[r].op = "idle" /\ \A q \in Reqs : q < r => req[q].op # "idle"

\* The clock advances.
Tick ==
    /\ now' = now + 1
    /\ out' = NoResponse
    /\ UNCHANGED << patients, tasks, contact_logs, serial, tz, req >>

\* The Patient, Task and ContactLog built from a stored document:
\* a default_factory runs only for a field the document lacks.
PatientOf(doc)    == Patient(doc, PatientId(serial.patients + 1), Timestamp)
TaskOf(doc)       == Task(doc, TaskId(serial.tasks + 1), Timestamp)
ContactLogOf(doc) == ContactLog(doc, LogId(serial.contact_logs + 1), Timestamp)

(***************************************************************************)
(* Patient endpoints.                                                      *)
(***************************************************************************)
\* POST /patients
CreatePatient(raw) ==
    /\ LET patient_dict == PrepareForMongo(PatientCreate(raw))
           patient_obj  == Patient(patient_dict, PatientId(serial.patients + 1), Timestamp)
       IN  /\ patients' = InsertOne(patients, patient_obj, serial.patients + 1)
           /\ out' = Response("create_patient", raw, 200, patient_obj)
    /\ serial' = [serial EXCEPT !.patients = @ + 1]
    /\ UNCHANGED << tasks, contact_logs, now, tz, req >>

\* A query that takes a document matching either of two filters given
\* together.
PatientsQueryEither(doc, search, tan_expiring, thirty_days) ==
    LET found == \/ RegexSearch(search, doc.first_name)
                 \/ RegexSearch(search, doc.last_name)
                 \/ RegexSearch(search, doc.phone)
        expiring == StrLE(doc.tan_expiry_date, thirty_days)
    IN  IF search # Empty /\ tan_expiring = Some(TRUE) THEN found \/ expiring
        ELSE (search # Empty => found) /\ (tan_expiring = Some(TRUE) => expiring)

\* The query of get_patients.
PatientsQuery(doc, search, tan_expiring, thirty_days) ==
    /\ search # Empty =>
          \/ RegexSearch(search, doc.first_name)
          \/ RegexSearch(search, doc.last_name)
          \/ RegexSearch(search, doc.phone)
    /\ tan_expiring = Some(TRUE) => StrLE(doc.tan_expiry_date, thirty_days)

\* GET /patients?search=&tan_expiring=   (search None is search "")
GetPatients(search, tan_expiring) ==
    /\ LET thirty_days == ThirtyDaysAhead
           hits  == { i \in DOMAIN patients :
                        PatientsQuery(patients[i], search, tan_expiring, thirty_days) }
           found == ToList(Find(patients, hits), ListCap)
       IN  out' = Response("get_patients", << search, tan_expiring >>, 200,
                           [i \in DOMAIN found |-> PatientOf(found[i])])
    /\ UNCHANGED << patients, tasks, contact_logs, serial, now, tz, req >>

\* GET /patients/{patient_id}
GetPatient(patient_id) ==
    /\ LET patient == FindOne(patients, WithId(patients, patient_id))
       IN  out' = IF patient = None
                  THEN Response("get_patient", patient_id, 404, None)
                  ELSE Response("get_patient", patient_id, 200,
                                PatientOf(patient[1]))
    /\ UNCHANGED << patients, tasks, contact_logs, serial, now, tz, req >>

\* Python's truth value of a field's value.
Truthy(k, v) ==
    CASE k = "medicaid_eligible" -> v
      [] k = "doctor"            -> TRUE
      [] OTHER                   -> v # << >>

\* An update_dict of the fields of the body that are truthy, and updated_at.
UpdateDictTruthy(patient_update, ts) ==
    LET keys == { k \in DOMAIN patient_update :
                    patient_update[k] # None /\ Truthy(k, patient_update[k][1]) }
    IN  [k \in keys \cup {"updated_at"} |->
            IF k = "updated_at" THEN ts
            ELSE IF k \in PatientOptionalFields THEN patient_update[k]
            ELSE patient_update[k][1]]

\* update_dict of update_patient: the fields of the body that are not None,
\* and updated_at.
UpdateDict(patient_update, ts) ==
    LET keys == { k \in DOMAIN patient_update : patient_update[k] # None }
    IN  PrepareForMongo(
          [k \in keys \cup {"updated_at"} |->
              IF k = "updated_at" THEN ts
              ELSE IF k \in PatientOptionalFields THEN patient_update[k]
              ELSE patient_update[k][1]])

\* An update that writes back the whole document it read, merged with the
\* body.
UpdateFindWholeDocument(r, patient_id, raw) ==
    /\ FreeSlot(r)
    /\ LET existing_patient == FindOne(patients, WithId(patients, patient_id))
       IN  IF existing_patient = None
           THEN /\ out' = Response("update_patient", << patient_id, PatientUpdate(raw) >>,
                                   404, None)
                /\ req' = req
           ELSE /\ out' = NoResponse
                /\ req' = [req EXCEPT ![r] =
                             [op |-> "update_patient", pc |-> "update_one",
                              id |-> patient_id, body |-> PatientUpdate(raw),
                              loc |-> SetFields(existing_patient[1],
                                         UpdateDict(PatientUpdate(raw), Timestamp))]]
    /\ UNCHANGED << patients, tasks, contact_logs, serial, now, tz >>

\* PUT /patients/{patient_id}, up to the first await's return: find_one, the
\* 404, and update_dict.
UpdateFind(r, patient_id, raw) ==
    /\ FreeSlot(r)
    /\ LET existing_patient == FindOne(patients, WithId(patients, patient_id))
       IN  IF existing_patient = None
           THEN /\ out' = Response("update_patient", << patient_id, PatientUpdate(raw) >>,
                                   404, None)
                /\ req' = req
           ELSE /\ out' = NoResponse
                /\ req' = [req EXCEPT ![r] =
                             [op |-> "update_patient", pc |-> "update_one",
                              id |-> patient_id, body |-> PatientUpdate(raw),
                              loc |-> UpdateDict(PatientUpdate(raw), Timestamp)]]
    /\ UNCHANGED << patients, tasks, contact_logs, serial, now, tz >>

\* update_patient: the store executes update_one.
UpdateSet(r) ==
    /\ req[r].op = "update_patient" /\ req[r].pc = "update_one"
    /\ patients' = UpdateOne(patients, WithId(patients, req[r].id), req[r].loc).coll
    /\ req' = [req EXCEPT ![r].pc = "find_one"]
    /\ out' = NoResponse
    /\ UNCHANGED << tasks, contact_logs, serial, now, tz >>

\* update_patient: the second find_one and the Patient built from it, which
\* raises TypeError when updated_patient is None: the framework answers 500.
UpdateRead(r) ==
    /\ req[r].op = "update_patient" /\ req[r].pc = "find_one"
    /\ LET updated_patient == FindOne(patients, WithId(patients, req[r].id))
       IN  out' = IF updated_patient = None
                  THEN Response("update_patient", << req[r].id, req[r].body >>, 500, None)
                  ELSE Response("update_patient", << req[r].id, req[r].body >>, 200,
                                PatientOf(updated_patient[1]))
    /\ req' = [req EXCEPT ![r] = IdleReq]
    /\ UNCHANGED << patients, tasks, contact_logs, serial, now, tz >>

\* DELETE /patients/{patient_id}
DeletePatient(patient_id) ==
    /\ LET result == DeleteOne(patients, WithId(patients, patient_id))
       IN  /\ patients' = result.coll
           /\ out' = IF result.deleted_count = 0
                     THEN Response("delete_patient", patient_id, 404, None)
                     ELSE Response("delete_patient", patient_id, 200, None)
    /\ UNCHANGED << tasks, contact_logs, serial, now, tz, req >>

(***************************************************************************)
(* Task endpoints.                                                         *)
(***************************************************************************)
\* POST /tasks
CreateTask(raw) ==
    /\ LET task_dict == PrepareForMongo(TaskCreate(raw))
           task_obj  == Task(task_dict, TaskId(serial.tasks + 1), Timestamp)
       IN  /\ tasks' = InsertOne(tasks, task_obj, serial.tasks + 1)
           /\ out' = Response("create_task", raw, 200, task_obj)
    /\ serial' = [serial EXCEPT !.tasks = @ + 1]
    /\ UNCHANGED << patients, contact_logs, now, tz, req >>

\* The query of get_tasks: an argument that is None (or empty) adds no
\* condition.
TasksQuery(doc, patient_id, status, due_today, today) ==
    /\ patient_id # Empty => doc.patient_id = patient_id
    /\ status # None => doc.status = status[1]
    /\ due_today = Some(TRUE) => doc.due_date = Some(today)

\* GET /tasks?patient_id=&status=&due_today=
GetTasks(patient_id, status, due_today) ==
    /\ LET today == UtcToday
           hits  == { i \in DOMAIN tasks :
                        TasksQuery(tasks[i], patient_id, status, due_today, today) }
           found == ToList(Find(tasks, hits), ListCap)
       IN  out' = Response("get_tasks", << patient_id, status, due_today >>, 200,
                           [i \in DOMAIN found |-> TaskOf(found[i])])
    /\ UNCHANGED << patients, tasks, contact_logs, serial, now, tz, req >>

\* A $set that leaves completed_at alone.
CompletedFieldsNoStamp(ts) == [status |-> "completed"]

\* The $set of complete_task.
CompletedFields(ts) == [status |-> "completed", completed_at |-> Some(ts)]

\* PUT /tasks/{task_id}/complete
CompleteTask(task_id) ==
    /\ LET result == UpdateOne(tasks, WithId(tasks, task_id),
                               CompletedFields(Timestamp))
       IN  /\ tasks' = result.coll
           /\ out' = IF result.modified_count = 0
                     THEN Response("complete_task", task_id, 404, None)
                     ELSE Response("complete_task", task_id, 200, None)
    /\ UNCHANGED << patients, contact_logs, serial, now, tz, req >>

(***************************************************************************)
(* Contact-log endpoints.                                                  *)
(***************************************************************************)
\* POST /contact-logs
CreateContactLog(raw) ==
    /\ LET contact_dict == PrepareForMongo(ContactLogCreate(raw))
           contact_obj  == ContactLog(contact_dict, LogId(serial.contact_logs + 1), Timestamp)
       IN  /\ contact_logs' = InsertOne(contact_logs, contact_obj, serial.contact_logs + 1)
           /\ out' = Response("create_contact_log", raw, 200, contact_obj)
    /\ serial' = [serial EXCEPT !.contact_logs = @ + 1]
    /\ UNCHANGED << patients, tasks, now, tz, req >>

(***************************************************************************)
(* GET /reports/daily-calls: three finds, one step each.                   *)
(***************************************************************************)
\* The same query without its condition on status.
DailyTasksQueryAnyStatus(doc, today) == doc.due_date = Some(today)

\* {"due_date": today, "status": {"$ne": COMPLETED}}
DailyTasksQuery(doc, today) ==
    doc.due_date = Some(today) /\ doc.status # "completed"

\* {"follow_up_needed": True, "follow_up_date": {"$lte": today}}: a
\* follow_up_date that is null is not a string and does not match.
CallbacksQuery(doc, today) ==
    /\ doc.follow_up_needed = TRUE
    /\ doc.follow_up_date # None
    /\ StrLE(doc.follow_up_date[1], today)

\* {"tan_expiry_date": {"$lte": thirty_days}}
ExpiringTansQuery(doc, thirty_days) == StrLE(doc.tan_expiry_date, thirty_days)

\* today, and the find on db.tasks.
ReportTasks(r) ==
    /\ FreeSlot(r)
    /\ LET today == UtcToday
           hits  == { i \in DOMAIN tasks : DailyTasksQuery(tasks[i], today) }
           daily_tasks == ToList(Find(tasks, hits), ListCap)
       IN  req' = [req EXCEPT ![r] =
                     [op |-> "daily_call_report", pc |-> "contact_logs", id |-> None,
                      body |-> None,
                      loc |-> [today |-> today, daily_tasks |-> daily_tasks]]]
    /\ out' = NoResponse
    /\ UNCHANGED << patients, tasks, contact_logs, serial, now, tz >>

\* The find on db.contact_logs, and thirty_days.
ReportLogs(r) ==
    /\ req[r].op = "daily_call_report" /\ req[r].pc = "contact_logs"
    /\ LET today == req[r].loc.today
           hits  == { i \in DOMAIN contact_logs : CallbacksQuery(contact_logs[i], today) }
           callback_logs == ToList(Find(contact_logs, hits), ListCap)
       IN  req' = [req EXCEPT ![r].pc = "patients",
                              ![r].loc = @ @@ [callback_logs |-> callback_logs,
                                               thirty_days |-> ThirtyDaysAhead]]
    /\ out' = NoResponse
    /\ UNCHANGED << patients, tasks, contact_logs, serial, now, tz >>

\* A body whose total counts a patient once, however many entries it has.
ReportBodyDeduplicated(daily_tasks, callback_logs, expiring_tans) ==
    [daily_tasks      |-> [i \in DOMAIN daily_tasks |-> TaskOf(daily_tasks[i])],
     callbacks_needed |-> [i \in DOMAIN callback_logs |-> ContactLogOf(callback_logs[i])],
     expiring_tans    |-> [i \in DOMAIN expiring_tans |-> PatientOf(expiring_tans[i])],
     total_items      |->
        Cardinality({ daily_tasks[i].patient_id : i \in DOMAIN daily_tasks }
                    \cup { callback_logs[i].patient_id : i \in DOMAIN callback_logs }
                    \cup { expiring_tans[i].id : i \in DOMAIN expiring_tans })]

\* The body of the report.
ReportBody(daily_tasks, callback_logs, expiring_tans) ==
    [daily_tasks      |-> [i \in DOMAIN daily_tasks |-> TaskOf(daily_tasks[i])],
     callbacks_needed |-> [i \in DOMAIN callback_logs |-> ContactLogOf(callback_logs[i])],
     expiring_tans    |-> [i \in DOMAIN expiring_tans |-> PatientOf(expiring_tans[i])],
     total_items      |-> Len(daily_tasks) + Len(callback_logs) + Len(expiring_tans)]

\* The find on db.patients, and the response.
ReportPatients(r) ==
    /\ req[r].op = "daily_call_report" /\ req[r].pc = "patients"
    /\ LET hits == { i \in DOMAIN patients :
                       ExpiringTansQuery(patients[i], req[r].loc.thirty_days) }
           expiring_tans == ToList(Find(patients, hits), ListCap)
       IN  out' = Response("daily_call_report", None, 200,
                           ReportBody(req[r].loc.daily_tasks, req[r].loc.callback_logs,
                                      expiring_tans))
    /\ req' = [req EXCEPT ![r] = IdleReq]
    /\ UNCHANGED << patients, tasks, contact_logs, serial, now, tz >>


(***************************************************************************)
(* Request inputs.                                                         *)
(***************************************************************************)
\* A function restricted to some of its keys.
Restrict(f, keys) == [k \in keys |-> f[k]]

\* Request bodies of POST /patients: one with the required fields only, one
\* with every field.
PatientRawA ==
    [first_name |-> StrAl, last_name |-> StrLi, phone |-> StrPh1, address |-> StrOak,
     doctor |-> DoctorA, current_tan |-> StrTan, tan_expiry_date |-> IsoDate(21),
     medicaid_id |-> StrMid]
PatientRawB ==
    [first_name |-> StrBo, last_name |-> StrLi, phone |-> StrPh2, address |-> StrOak,
     height |-> Some(StrPh1), weight |-> None, icd10_codes |-> << StrE11 >>,
     doctor |-> DoctorB, current_tan |-> StrTan, tan_expiry_date |-> IsoDate(41),
     medicaid_id |-> StrMid, medicaid_eligible |-> FALSE, products |-> << StrPad >>,
     notes |-> StrNote]
PatientRaws == { PatientRawA, PatientRawB }

\* Request bodies of PUT /patients/{id}: a value for every field, some of
\* them falsy (False, the empty list); a body has some of the fields.
UpdateAll ==
    [first_name |-> StrOak, last_name |-> StrAl, phone |-> StrPh2, address |-> StrLi,
     height |-> StrE11, weight |-> StrMid, icd10_codes |-> << StrE11, StrTan >>,
     doctor |-> DoctorB, current_tan |-> StrMid, tan_expiry_date |-> IsoDate(32),
     medicaid_id |-> StrTan, medicaid_eligible |-> FALSE,
     last_billing_date |-> IsoDate(1), products |-> << >>, notes |-> StrCall]
\* No field, every field, and one field alone: one of each type.
UpdateRaws ==
    { Restrict(UpdateAll, keys) :
        keys \in { {}, DOMAIN UpdateAll } \cup
                 { { f } : f \in { "notes", "medicaid_eligible", "height", "doctor",
                                   "products", "tan_expiry_date" } } }

\* Path parameters.
PatientIds == { PatientId(n) : n \in 1..MaxPatients } \cup { UnknownId }
TaskIds    == { TaskId(n) : n \in 1..MaxTasks } \cup { UnknownId }

\* Query parameters.
Flags    == { None, Some(TRUE), Some(FALSE) }
Searches == { Empty, << 97, 108 >>, << 108 >>, << 46 >>, << 55 >> }   \* "", "al", "l", ".", "7"

\* Request bodies of POST /tasks.
TaskRawA ==
    [patient_id |-> PatientId(1), task_type |-> "call_patient", title |-> StrCall,
     due_date |-> Some(IsoDate(1))]
TaskRawB ==
    [patient_id |-> PatientId(2), task_type |-> "tan_renewal", title |-> StrTan,
     description |-> StrNote, due_date |-> Some(IsoDate(2))]
DueTaskRaws == { TaskRawA, TaskRawB }

\* Request bodies of POST /contact-logs.
LogRawA ==
    [patient_id |-> PatientId(1), outcome |-> "no_answer", follow_up_needed |-> TRUE,
     follow_up_date |-> Some(IsoDate(2))]

(***************************************************************************)
(* History.  hist is a function of the behaviour so far:                   *)
(*   created    the entities create_patient returned                       *)
(*   written    the ids of the patients changed or removed since           *)
(*   removed    the ids of the patients delete_one removed                 *)
(*   completed  the ids of the tasks seen with status completed            *)
(*   pre        the collection before the store operation of the           *)
(*              single-step handler that sent out                          *)
(*   snap       db.patients when the update in flight began (kept by the   *)
(*              sequential specification)                                  *)
(*   started    the update requests that passed their first find_one (kept *)
(*              by the specifications that count them)                     *)
(* A specification keeps the parts its properties read.                    *)
(***************************************************************************)
IdsOf(coll) == { coll[i].id : i \in DOMAIN coll }

History(keepSets, keepSnap, keepStarted) ==
    LET began == { r \in Reqs : req[r].op = "idle" /\ req'[r].op = "update_patient" }
        busy  == \E r \in Reqs : req[r].op = "update_patient"
    IN  hist' =
          [created   |-> IF ~keepSets THEN hist.created
                         ELSE hist.created \cup
                              (IF out'.op = "create_patient" THEN { out'.body } ELSE {}),
           written   |-> IF ~keepSets THEN hist.written
                         ELSE hist.written \cup
                              { id \in IdsOf(patients) :
                                  FindOne(patients', WithId(patients', id))
                                    # FindOne(patients, WithId(patients, id)) },
           removed   |-> IF ~keepSets THEN hist.removed
                         ELSE hist.removed \cup (IdsOf(patients) \ IdsOf(patients')),
           completed |-> IF ~keepSets THEN hist.completed
                         ELSE hist.completed \cup
                              { tasks'[i].id : i \in { j \in DOMAIN tasks' :
                                                        tasks'[j].status = "completed" } },
           pre       |-> IF ~keepSets THEN hist.pre
                         ELSE IF out'.op \in { "create_patient", "delete_patient" }
                         THEN Some(patients)
                         ELSE IF out'.op \in { "create_task", "complete_task" }
                         THEN Some(tasks)
                         ELSE None,
           snap      |-> IF keepSnap /\ began # {} THEN Some(patients)
                         ELSE IF busy THEN hist.snap
                         ELSE None,
           started   |-> IF keepStarted /\ began # {}
                         THEN Append(hist.started,
                                     LET r == CHOOSE q \in began : TRUE
                                     IN  [id |-> req'[r].id, body |-> req'[r].body])
                         ELSE hist.started]

\* The history each specification keeps.
Keep == History(TRUE, FALSE, FALSE)
Bare == History(FALSE, FALSE, FALSE)

\* No handler is suspended: the next request is served alone.
Quiet == \A r \in Reqs : req[r].op = "idle"

(***************************************************************************)
(* SpecTasks: the task endpoints and the daily call report, interleaving.  *)
(***************************************************************************)
StatusFilters == { None, Some("pending"), Some("completed") }
PatientFilters == { Empty, PatientId(1) }

NextTasks ==
    \/ now < StartTick + MaxTicks /\ Tick /\ Keep
    \/ \E raw \in DueTaskRaws : serial.tasks < MaxTasks /\ CreateTask(raw) /\ Keep
    \/ \E pid \in PatientFilters, status \in StatusFilters, due_today \in Flags :
          GetTasks(pid, status, due_today) /\ Keep
    \/ \E id \in TaskIds : CompleteTask(id) /\ Keep
    \/ \E r \in Reqs : Quiet /\ ReportTasks(r) /\ Keep
    \/ \E r \in Reqs : ReportLogs(r) /\ Keep
    \/ \E r \in Reqs : ReportPatients(r) /\ Keep

SpecTasks == InitUtc /\ [][NextTasks]_vars

\* The stored task with this id, if any.
TaskWithId(coll, id) == FindOne(coll, WithId(coll, id))

\* C3 (as claimed): complete(id) answers NotFound exactly when no stored task
\* has that id; for a task that exists, whatever its status, it succeeds and
\* leaves the task completed with a completion timestamp; for an id with no
\* task it changes nothing.
C3_Original ==
    out.op = "complete_task" =>
        LET before == TaskWithId(hist.pre[1], out.args)
            after  == TaskWithId(tasks, out.args)
        IN  /\ out.status = 404 <=> before = None
            /\ before # None =>
                  /\ out.status = 200
                  /\ after[1].status = "completed"
                  /\ after[1].completed_at # None
            /\ before = None => tasks = hist.pre[1]

\* C10: a stored task has a completed_at if and only if its status is
\* completed; a created task is pending with no completed_at; a task that was
\* once completed stays completed and keeps a completed_at.
C10_CompletedAtIffCompleted ==
    /\ \A i \in DOMAIN tasks :
          /\ tasks[i].completed_at # None <=> tasks[i].status = "completed"
          /\ tasks[i].id \in hist.completed =>
                tasks[i].status = "completed" /\ tasks[i].completed_at # None
    /\ hist.completed \subseteq IdsOf(tasks)
    /\ out.op = "create_task" =>
          /\ out.body.status = "pending" /\ out.body.completed_at = None
          /\ TaskWithId(tasks, out.body.id) # None
          /\ TaskOf(TaskWithId(tasks, out.body.id)[1]) = out.body

\* C10's case: a task was completed, complete was requested again, and
\* another task is still pending.
C10_Witness ==
    /\ out.op = "complete_task"
    /\ hist.pre # None
    /\ TaskWithId(hist.pre[1], out.args) # None
    /\ TaskWithId(hist.pre[1], out.args)[1].status = "completed"
    /\ \E i \in DOMAIN tasks : tasks[i].status = "pending"

\* The ids of the entries of a list of entities.
ListIds(list) == { list[k].id : k \in DOMAIN list }

C6_Lists ==
    /\ (out.op = "get_tasks" /\ out.args[3] = Some(TRUE) /\ out.args[2] = None) =>
          \A i \in DOMAIN tasks :
             ( /\ tasks[i].id \in hist.completed
               /\ tasks[i].due_date = Some(UtcToday)
               /\ out.args[1] \in { Empty, tasks[i].patient_id } )
             => \E k \in DOMAIN out.body :
                   out.body[k].id = tasks[i].id /\ out.body[k].status = "completed"
    /\ (out.op = "get_tasks" /\ out.args[2] # None /\ out.args[2] # Some("completed")) =>
          ListIds(out.body) \cap hist.completed = {}

C6_Report ==
    \A r \in Reqs :
       /\ (req[r].op = "idle" /\ req'[r].op = "daily_call_report") =>
             ListIds(req'[r].loc.daily_tasks) \cap hist.completed = {}
       /\ (req[r].op = "daily_call_report" /\ req'[r].op = "idle") =>
             /\ out'.op = "daily_call_report"
             /\ out'.body.daily_tasks =
                   [k \in DOMAIN req[r].loc.daily_tasks |-> TaskOf(req[r].loc.daily_tasks[k])]

\* C6: once a task due today is completed, the task list with due_today and
\* no status filter still has it, with status completed; a task list filtered
\* to another status does not have it; and the daily_tasks a report finds
\* after the completion, which are the daily_tasks it returns, do not have it.
C6_CompletedDueToday == []C6_Lists /\ [][C6_Report]_vars

\* C6's case: the list with due_today and no status filter shows a completed
\* task due today.
C6_Witness ==
    /\ out.op = "get_tasks" /\ out.args[3] = Some(TRUE) /\ out.args[2] = None
    /\ \E k \in DOMAIN out.body :
          /\ out.body[k].id \in hist.completed
          /\ out.body[k].status = "completed"
          /\ out.body[k].due_date = Some(UtcToday)

(***************************************************************************)
(* SpecPatients: the endpoints of one patient record, interleaving.        *)
(***************************************************************************)
\* Request bodies of PUT /patients/{id}: one, with two fields.
FewUpdateRaws == { Restrict(UpdateAll, { "medicaid_eligible", "notes" }) }

NextPatients ==
    \/ now < StartTick + MaxTicks /\ Tick /\ Keep
    \/ \E raw \in PatientRaws : serial.patients < MaxPatients /\ CreatePatient(raw) /\ Keep
    \/ \E id \in PatientIds : GetPatient(id) /\ Keep
    \/ \E r \in Reqs, id \in PatientIds, raw \in FewUpdateRaws :
          UpdateFind(r, id, raw) /\ Keep
    \/ \E r \in Reqs : UpdateSet(r) /\ Keep
    \/ \E r \in Reqs : UpdateRead(r) /\ Keep
    \/ \E id \in PatientIds : DeletePatient(id) /\ Keep

SpecPatients == InitUtc /\ [][NextPatients]_vars

\* The stored patient with this id, if any.
PatientWithId(coll, id) == FindOne(coll, WithId(coll, id))

\* C2: delete of an id no stored patient has answers NotFound and leaves the
\* collection as it was; delete of a stored patient's id succeeds and removes
\* that patient and no other; a removed patient stays absent, and a later
\* get of its id answers NotFound.
C2_DeleteRemoves ==
    /\ out.op = "delete_patient" =>
          IF PatientWithId(hist.pre[1], out.args) = None
          THEN out.status = 404 /\ patients = hist.pre[1]
          ELSE /\ out.status = 200
               /\ PatientWithId(patients, out.args) = None
               /\ patients = SelectSeq(hist.pre[1], LAMBDA d : ~HasId(d, out.args))
    /\ \A id \in hist.removed : PatientWithId(patients, id) = None
    /\ out.op = "get_patient" =>
          /\ out.status = 404 <=> PatientWithId(patients, out.args) = None
          /\ out.args \in hist.removed => out.status = 404

\* C2's case: a get of a removed patient's id, while another patient is
\* stored and an update of the removed patient is still in flight.
C2_Witness ==
    /\ out.op = "get_patient" /\ out.args \in hist.removed /\ out.status = 404
    /\ patients # << >>
    /\ \E r \in Reqs : req[r].op = "update_patient" /\ req[r].id = out.args

\* C4 (as claimed): an update request ends with NotFound or with the entity
\* read from the store after its merge, never with another error.
C4_Original ==
    out.op = "update_patient" =>
        \/ out.status = 404
        \/ /\ out.status = 200
           /\ PatientWithId(patients, out.args[1]) # None
           /\ out.body = PatientOf(PatientWithId(patients, out.args[1])[1])

\* C5: create_patient returns an entity with a non-empty id, the input's
\* fields and medicaid_eligible true when the input has none, and stores it;
\* a get of that id, while the patient has not been updated or deleted,
\* returns an entity equal to it in every field.
C5_CreateThenGet ==
    /\ out.op = "create_patient" =>
          /\ out.body.id # Empty
          /\ \A f \in DOMAIN out.args : out.body[f] = out.args[f]
          /\ "medicaid_eligible" \notin DOMAIN out.args => out.body.medicaid_eligible = TRUE
          /\ out.body \in hist.created
          /\ PatientWithId(patients, out.body.id) # None
    /\ out.op = "get_patient" =>
          \A e \in hist.created :
             (e.id = out.args /\ e.id \notin hist.written) =>
                 out.status = 200 /\ out.body = e

\* C5's case: a get returns a patient created without medicaid_eligible and
\* not written since, while the other patient has been written.
C5_Witness ==
    /\ out.op = "get_patient" /\ out.status = 200
    /\ out.body \in hist.created
    /\ out.body.medicaid_eligible = TRUE
    /\ out.args \notin hist.written
    /\ hist.written # {}

(***************************************************************************)
(* SpecSeq: patients created and updated, one request served at a time.    *)
(***************************************************************************)
Alone == History(TRUE, TRUE, TRUE)

NextSeq ==
    \/ now < StartTick + MaxTicks /\ Tick /\ Alone
    \/ \E raw \in PatientRaws :
          Quiet /\ serial.patients < MaxPatients /\ CreatePatient(raw) /\ Alone
    \/ \E r \in Reqs, id \in PatientIds, raw \in UpdateRaws :
          Quiet /\ Len(hist.started) < MaxUpdates /\ UpdateFind(r, id, raw) /\ Alone
    \/ \E r \in Reqs : UpdateSet(r) /\ Alone
    \/ \E r \in Reqs : UpdateRead(r) /\ Alone

SpecSeq == InitUtc /\ [][NextSeq]_vars

\* The value a document holds for a field the body has.
BodyValue(f, opt) == IF f \in PatientOptionalFields THEN opt ELSE opt[1]

\* C1: an update served alone answers 200 for a stored patient; the stored
\* patient then has, for every field of PatientUpdate, the body's value if
\* the body has one and else the value it had when the request began; its
\* id, _id and created_at are as before; no other document has changed; and
\* the response is the stored patient.
C1_UpdateMerges ==
    out.op = "update_patient" =>
        LET id   == out.args[1]
            body == out.args[2]
        IN  IF out.status = 200
            THEN LET pre == hist.snap[1]
                     i   == FirstMatch(pre, WithId(pre, id))
                 IN  /\ i # 0
                     /\ Len(patients) = Len(pre)
                     /\ \A j \in DOMAIN pre : j # i => patients[j] = pre[j]
                     /\ DOMAIN patients[i] = DOMAIN pre[i]
                     /\ \A f \in PatientUpdateFields :
                           patients[i][f] = IF body[f] = None THEN pre[i][f]
                                            ELSE BodyValue(f, body[f])
                     /\ \A f \in { "id", "_id", "created_at" } : patients[i][f] = pre[i][f]
                     /\ out.body = PatientOf(patients[i])
            ELSE /\ out.status = 404
                 /\ hist.snap = None
                 /\ PatientWithId(patients, id) = None

\* C1's case: an update with no field, and one that sets medicaid_eligible
\* to false, each answered 200 while another patient is stored.
C1_Witness ==
    /\ out.op = "update_patient" /\ out.status = 200
    /\ Len(patients) = 2
    /\ Len(hist.started) = 2
    /\ hist.started[1].body = PatientUpdate(<< >>)
    /\ out.args[2]["medicaid_eligible"] = Some(FALSE)
    /\ out.body.updated_at # out.body.created_at

(***************************************************************************)
(* SpecRace: update requests of the same patients, interleaving.           *)
(***************************************************************************)
Raced == History(TRUE, FALSE, TRUE)

\* Request bodies of PUT /patients/{id}: two of them set notes, to different
\* values; each sets a field the others leave alone.
RaceUpdateRaws ==
    { Restrict(UpdateAll, { "medicaid_eligible", "notes" }),
      [notes |-> StrNote, products |-> << StrPad >>],
      Restrict(UpdateAll, { "height" }) }

NextRace ==
    \/ now < StartTick + MaxTicks /\ Tick /\ Raced
    \/ \E raw \in PatientRaws :
          serial.patients < MaxPatients /\ CreatePatient(raw) /\ Raced
    \/ \E r \in Reqs, id \in PatientIds, raw \in RaceUpdateRaws :
          Len(hist.started) < MaxUpdates /\ UpdateFind(r, id, raw) /\ Raced
    \/ \E r \in Reqs : UpdateSet(r) /\ Raced
    \/ \E r \in Reqs : UpdateRead(r) /\ Raced

SpecRace == InitUtc /\ [][NextRace]_vars

\* The update requests of patient id that set field f.
Setters(id, f) ==
    { k \in DOMAIN hist.started :
        hist.started[k].id = id /\ hist.started[k].body[f] # None }

\* C9: once the update requests have finished, every field of a stored
\* patient that no request set holds the value it was created with, and
\* every field that some requests set holds the value of one of them: the
\* value of the only request that set it, or of one of the two that did.
C9_LastWriteWins ==
    Quiet =>
        \A i \in DOMAIN patients :
           \E e \in hist.created :
              /\ e.id = patients[i].id
              /\ \A f \in PatientUpdateFields :
                    IF Setters(e.id, f) = {}
                    THEN patients[i][f] = e[f]
                    ELSE \E k \in Setters(e.id, f) :
                            patients[i][f] = BodyValue(f, hist.started[k].body[f])

\* C9's case: two updates of the same patient were both in flight before
\* either wrote; both set notes, each sets a field the other does not, and
\* both have finished.
C9_Witness ==
    /\ Quiet
    /\ out.op = "update_patient" /\ out.status = 200
    /\ Len(hist.started) = 2
    /\ hist.started[1].id = hist.started[2].id
    /\ hist.started[1].body["notes"] # None
    /\ hist.started[2].body["notes"] # None
    /\ hist.started[1].body["notes"] # hist.started[2].body["notes"]
    /\ hist.started[1].body["medicaid_eligible"] = Some(FALSE)
    /\ out.body.medicaid_eligible = FALSE
    /\ out.body.products = << StrPad >>
    /\ out.body.notes = StrCall

(***************************************************************************)
(* SpecList: the patient list, over patients whose TANs expire before, at  *)
(* and after the threshold, on a server in either time zone.               *)
(***************************************************************************)
\* Request bodies of POST /patients: TANs that expire on days 21, 31, 32
\* and 41.
ListPatientRaws ==
    PatientRaws \cup
    { [PatientRawA EXCEPT !.tan_expiry_date = IsoDate(d)] : d \in { 31, 32 } }

NextList ==
    \/ now < StartTick + MaxTicks /\ Tick /\ Keep
    \/ \E raw \in ListPatientRaws :
          serial.patients < MaxPatients /\ CreatePatient(raw) /\ Keep
    \/ \E search \in Searches, tan_expiring \in Flags :
          GetPatients(search, tan_expiring) /\ Keep
    \/ \E id \in PatientIds : DeletePatient(id) /\ Keep

SpecList == Init /\ [][NextList]_vars

\* The day a date string names.
DayOfIso(s) == CHOOSE n \in 0..(2 * ThirtyDays) : IsoDate(n) = s

\* text has s as a substring, letter case aside.
ContainsFold(text, s) ==
    \E off \in 0..(Len(text) - Len(s)) :
        \A i \in 1..Len(s) : Lower(text[off + i]) = Lower(s[i])

\* A search text matches a field as a substring, letter case aside; a text
\* with a '.' is matched as the pattern it is to the store.
SearchMatches(search, text) ==
    IF \E i \in DOMAIN search : search[i] = 46
    THEN RegexSearch(search, text)
    ELSE ContainsFold(text, search)

\* The patient satisfies every filter that is requested; today is the date
\* of the server's clock.
Listed(doc, search, tan_expiring) ==
    /\ tan_expiring = Some(TRUE) =>
          DayOfIso(doc.tan_expiry_date) <= (LocalNow \div TicksPerDay) + ThirtyDays
    /\ search # Empty =>
          \/ SearchMatches(search, doc.first_name)
          \/ SearchMatches(search, doc.last_name)
          \/ SearchMatches(search, doc.phone)

ReportPatientRaws == { PatientRawA }
ReportTaskRaws    == { TaskRawA }
ReportUpdateRaws  == { Restrict(UpdateAll, { "tan_expiry_date" }) }
ReportLogRaws     == { [LogRawA EXCEPT !.follow_up_date = Some(IsoDate(1))] }

\* No report is being built: one report at a time runs against the writes.
NoReport == \A r \in Reqs : req[r].op # "daily_call_report"

NextReport ==
    \/ \E raw \in ReportPatientRaws :
          serial.patients < MaxPatients /\ CreatePatient(raw) /\ Bare
    \/ \E r \in Reqs, id \in PatientIds, raw \in ReportUpdateRaws :
          UpdateFind(r, id, raw) /\ Bare
    \/ \E r \in Reqs : UpdateSet(r) /\ Bare
    \/ \E r \in Reqs : UpdateRead(r) /\ Bare
    \/ \E id \in PatientIds : DeletePatient(id) /\ Bare
    \/ \E raw \in ReportTaskRaws : serial.tasks < MaxTasks /\ CreateTask(raw) /\ Bare
    \/ \E id \in TaskIds : CompleteTask(id) /\ Bare
    \/ \E raw \in ReportLogRaws :
          serial.contact_logs < MaxLogs /\ CreateContactLog(raw) /\ Bare
    \/ \E r \in Reqs : NoReport /\ ReportTasks(r) /\ Bare
    \/ \E r \in Reqs : ReportLogs(r) /\ Bare
    \/ \E r \in Reqs : ReportPatients(r) /\ Bare

SpecReport == InitUtc /\ [][NextReport]_vars

\* C8: in every report, total_items is the number of entries of daily_tasks
\* plus that of callbacks_needed plus that of expiring_tans, a patient that
\* is in several of them counting once for each.
C8_TotalItems ==
    out.op = "daily_call_report" =>
        /\ out.status = 200
        /\ out.body.total_items =
              Len(out.body.daily_tasks) + Len(out.body.callbacks_needed)
                + Len(out.body.expiring_tans)

\* C8's case: a report with the same patient in all three lists, whose task
\* was completed while the report was being built, sent while an update of a
\* patient is in flight.
C8_Witness ==
    /\ out.op = "daily_call_report"
    /\ out.body.total_items = 3
    /\ Len(out.body.daily_tasks) = 1 /\ Len(out.body.callbacks_needed) = 1
    /\ out.body.daily_tasks[1].patient_id = out.body.expiring_tans[1].id
    /\ out.body.callbacks_needed[1].patient_id = out.body.expiring_tans[1].id
    /\ TaskWithId(tasks, out.body.daily_tasks[1].id)[1].status = "completed"
    /\ \E r \in Reqs : req[r].op = "update_patient"

====
